---- MODULE Spec2Model ----
(***************************************************************************)
(* RAGChatService (src/src/services/ragService.js): the binary index       *)
(* store, project-scope detection, similarity search, the agentic tool     *)
(* loop, the query orchestrator with its fallback, and the rolling         *)
(* conversation summary.  Strings are TLA+ strings handled character by    *)
(* character (Len, SubSeq, \o); a JS value that may be null is a sequence  *)
(* of length 0 (null) or 1 (the value).                                    *)
(***************************************************************************)
EXTENDS Integers, Sequences, FiniteSets, TLC

(* ---------------------------------------------------------------- bounds *)
\* number of query() calls a session makes
MaxTurns == 1
\* number of tool calls one model reply may request
MaxToolCalls == 2
\* number of chunks of the indexes retrieveTopK is run over on its own
MaxChunks == 3
\* number of repos of the indexes detectProjectContext is run over on its own
MaxRepos == 2
\* number of query() calls of a conversation with an initialized service
MaxChatTurns == 2
\* number of chunks of the indexes formatChunks is run over on its own, and
\* of the hits it is given
MaxFormatted == 2
\* number of fragments a text given to normalizeEmails is made of
MaxFragments == 3

(* ------------------------------------------------------ program constants *)
\* agenticLoop(systemPrompt, messages, maxIterations = 3)
maxIterations == 3
\* retrieveTopK(queryVector, { repoFilter, k: 10 }) as called by query
TopK == 10
\* history.slice(-6) in query, history.slice(-4) in queryFallback
RecentGrounded == 6
RecentFallback == 4
\* formatChunks: const maxLength = 1200
maxLength == 1200

Null == <<>>
Some(v) == <<v>>
IsNull(o) == o = <<>>
Val(o) == o[1]

(* ------------------------------------------------------------- characters *)
Upper == "ABCDEFGHIJKLMNOPQRSTUVWXYZ"
Lower == "abcdefghijklmnopqrstuvwxyz"
Digits == "0123456789"

Chars(s) == {SubSeq(s, i, i) : i \in 1..Len(s)}
DigitChars == Chars(Digits)
LowerAlnumChars == Chars(Lower) \cup Chars(Digits)
IsDigit(c) == c \in DigitChars
IsLowerAlnum(c) == c \in LowerAlnumChars

\* String.prototype.toLowerCase on one character
lowerOf == [n \in 1..Len(Upper) |-> <<SubSeq(Upper, n, n), SubSeq(Lower, n, n)>>]
toLowerCase(c) ==
  IF \E n \in DOMAIN lowerOf : lowerOf[n][1] = c
    THEN lowerOf[CHOOSE n \in DOMAIN lowerOf : lowerOf[n][1] = c][2]
    ELSE c

\* .toLowerCase().replace(/[_-]/g, ' ')
RECURSIVE lowerAndDashes(_)
lowerAndDashes(s) ==
  IF s = "" THEN ""
  ELSE LET c == SubSeq(s, 1, 1)
       IN (IF c \in {"_", "-"} THEN " " ELSE toLowerCase(c)) \o lowerAndDashes(Tail(s))

\* .replace(/[^a-z0-9\s]/g, '')
RECURSIVE removePunctuation(_)
removePunctuation(s) ==
  IF s = "" THEN ""
  ELSE LET c == SubSeq(s, 1, 1)
       IN (IF IsLowerAlnum(c) \/ c = " " THEN c ELSE "") \o removePunctuation(Tail(s))

\* .replace(/\s+/g, ' ')
RECURSIVE collapseWhitespace(_)
collapseWhitespace(s) ==
  IF Len(s) < 2 THEN s
  ELSE IF SubSeq(s, 1, 1) = " " /\ SubSeq(s, 2, 2) = " "
         THEN collapseWhitespace(Tail(s))
         ELSE SubSeq(s, 1, 1) \o collapseWhitespace(Tail(s))

\* String.prototype.trim
RECURSIVE trim(_)
trim(s) ==
  IF s = "" THEN ""
  ELSE IF SubSeq(s, 1, 1) = " " THEN trim(Tail(s))
  ELSE IF SubSeq(s, Len(s), Len(s)) = " " THEN trim(SubSeq(s, 1, Len(s) - 1))
  ELSE s

normalizeText(text) ==
  trim(collapseWhitespace(removePunctuation(lowerAndDashes(text))))

\* normalized.replace(/\s+(19|20)\d{2}\s*$/, '').trim() on a normalized string
withoutYear(normalized) ==
  LET n == Len(normalized)
  IN IF /\ n >= 5
        /\ SubSeq(normalized, n - 4, n - 4) = " "
        /\ SubSeq(normalized, n - 3, n - 2) \in {"19", "20"}
        /\ IsDigit(SubSeq(normalized, n - 1, n - 1))
        /\ IsDigit(SubSeq(normalized, n, n))
       THEN trim(SubSeq(normalized, 1, n - 5))
       ELSE normalized

(* ------------------------------------------------------- the index assets *)
\* what a fetch of /rag/meta.json, /rag/vectors.f32, /rag/texts.txt and
\* /data/resume.json can deliver; a failed fetch (network error, !ok, bad
\* JSON) is Null
\* the chunk at offset 0 has start_line 0, which formatChunks reads as absent
Item(repo, projectName, off, len) ==
  [repo |-> repo, project_name |-> projectName, file_path |-> "src/a.js",
   start_line |-> off, end_line |-> off + len, text_offset |-> off, text_length |-> len]

MetaAlphaBeta ==
  [count |-> 2, dim |-> 1, items |-> <<Item("alpha", "", 0, 2), Item("", "beta-2019", 2, 1)>>]
\* items.length differs from count
MetaShortItems ==
  [count |-> 2, dim |-> 1, items |-> <<Item("alpha", "", 0, 2)>>]
\* a chunk whose span runs past every text blob
MetaOverrun ==
  [count |-> 1, dim |-> 2, items |-> <<Item("alpha", "", 1, 4)>>]
\* count is 0 (falsy)
MetaEmpty ==
  [count |-> 0, dim |-> 1, items |-> <<>>]

\* a chunk that names no repo and no project
MetaUnscoped ==
  [count |-> 1, dim |-> 1, items |-> <<Item("", "", 0, 3)>>]

MetaDocs == {MetaAlphaBeta, MetaShortItems, MetaOverrun, MetaEmpty, MetaUnscoped}
VectorAssets == {<<1, 2>>, <<2>>}
TextAssets == {"abc"}
ResumeDocs ==
  {[projects |-> <<[title |-> "Alpha App", repo_name |-> "alpha"],
                   [title |-> "Gamma", repo_name |-> "gamma"]>>]}

Fetched(S) == {Null} \cup {Some(a) : a \in S}

VARIABLES
  apiKey,          \* process.env.REACT_APP_OPENAI_API_KEY is set
  embedder,        \* this.embedder !== null
  llm,             \* this.llm !== null
  llmWithTools,    \* this.llmWithTools !== null
  tools,           \* this.tools (the names)
  initialized,     \* this.initialized
  resumeData,      \* this.resumeData
  indexMeta,       \* this.indexMeta
  vectors,         \* this.vectors
  textsBuffer,     \* this.textsBuffer
  indexLoaded,     \* this.indexLoaded
  repoNames,       \* this.repoNames
  projectAliases,  \* this.projectAliases: <<alias, repo>> in insertion order
  pc,              \* where the running call is suspended ("idle": none)
  caller,          \* who awaits loadBinaryIndex: "initialize" or "direct"
  conversationSummary, \* this.conversationSummary
  sessionStore,    \* sessionStorage's 'conversationSummary' item ('' when absent)
  pendingSummaries,\* turns whose fire-and-forget summarization call is in flight
  turns,           \* query() calls made
  userMessage,     \* query's userMessage
  history,         \* query's history
  targetRepo,      \* query's targetRepo
  queryVector,     \* query's queryVector
  topKResults,     \* query's topKResults
  sourceDocuments, \* query's sourceDocuments
  rankK,           \* the k of the last retrieveTopK call
  formattedContext, \* what formatChunks returned, empty before it ran
  detectReply,     \* result in detectProjectContextViaLLM: what llm.invoke settled with
  summarySettled,  \* how the last summarizer call settled since query was called
  stages,          \* the calls the running query() has made so far
  invocations,     \* chat-completion calls the running query() has issued, by caller
  queryResult,     \* what the last query() resolved with
  queryOutcome,    \* "none", "pending", "resolved" or "rejected"
  loopFor,         \* who awaits agenticLoop: "query", "fallback" or "direct"
  systemPrompt,    \* agenticLoop's systemPrompt
  currentMessages, \* agenticLoop's currentMessages
  iteration,       \* agenticLoop's iteration
  cap,             \* agenticLoop's maxIterations argument
  toolCalls,       \* the tool calls of the reply still to execute
  modelCalls,      \* llmWithTools.invoke calls of the running agenticLoop
  lastReply,       \* the model reply the loop received last
  loopOutcome,     \* "none", "pending", "returned" or "threw"
  loopReturn,      \* what the last agenticLoop returned
  loadOutcome      \* how the last initialize()/loadBinaryIndex() call settled:
                   \* "resolved", "cached" (loadBinaryIndex logged a cache hit and
                   \* returned), "load_rejected" (loadBinaryIndex threw),
                   \* "rejected" (initialize threw before loading)

serviceVars ==
  <<apiKey, embedder, llm, llmWithTools, tools, initialized, resumeData,
    indexMeta, vectors, textsBuffer, indexLoaded, repoNames, projectAliases>>
loadVars == <<pc, caller, loadOutcome>>
summaryVars == <<conversationSummary, sessionStore, pendingSummaries, summarySettled>>
inputVars == <<turns, userMessage, history>>
groundVars == <<targetRepo, queryVector, topKResults, sourceDocuments, rankK, detectReply,
               formattedContext>>
outVars == <<stages, invocations, queryResult, queryOutcome>>
loopVars ==
  <<loopFor, systemPrompt, currentMessages, iteration, cap, toolCalls,
    modelCalls, lastReply, loopOutcome, loopReturn>>
turnVars == <<summaryVars, inputVars, groundVars, outVars, loopVars>>
vars == <<serviceVars, loadVars, turnVars>>

ToolNames ==
  <<"get_experience", "get_education", "get_certifications",
    "get_projects", "get_skills", "get_contact_info">>

(* ------------------------------------------------- buildProjectAliases *)
itemRepo(item) == IF item.repo # "" THEN item.repo ELSE item.project_name

\* Set.add over the items, then Array.from: first appearance order
RECURSIVE uniqueRepos(_, _)
uniqueRepos(items, acc) ==
  IF items = <<>> THEN acc
  ELSE LET repo == itemRepo(Head(items))
       IN uniqueRepos(Tail(items),
            IF repo # "" /\ \A i \in 1..Len(acc) : acc[i] # repo
              THEN Append(acc, repo) ELSE acc)

\* Map.prototype.set: an existing key keeps its place and takes the new value
mapSet(m, key, value) ==
  IF \E i \in 1..Len(m) : m[i][1] = key
    THEN [i \in 1..Len(m) |-> IF m[i][1] = key THEN <<key, value>> ELSE m[i]]
    ELSE Append(m, <<key, value>>)

RECURSIVE addRepoAliases(_, _)
addRepoAliases(repos, m) ==
  IF repos = <<>> THEN m
  ELSE LET repo == Head(repos)
           normalized == normalizeText(repo)
           m1 == mapSet(m, normalized, repo)
           m2 == IF withoutYear(normalized) # normalized
                   THEN mapSet(m1, withoutYear(normalized), repo) ELSE m1
       IN addRepoAliases(Tail(repos), m2)

RECURSIVE addTitleAliases(_, _)
addTitleAliases(projects, m) ==
  IF projects = <<>> THEN m
  ELSE LET proj == Head(projects)
       IN addTitleAliases(Tail(projects),
            IF proj.title # "" /\ proj.repo_name # ""
              THEN mapSet(m, normalizeText(proj.title), proj.repo_name) ELSE m)

portfolioAliases ==
  <<"this website", "this project", "this portfolio", "portfolio chat",
    "ai portfolio", "rag portfolio", "portfolio assistant">>

RECURSIVE addPortfolioAliases(_, _)
addPortfolioAliases(aliases, m) ==
  IF aliases = <<>> THEN m
  ELSE addPortfolioAliases(Tail(aliases), mapSet(m, Head(aliases), "portfolio-chat"))

repoNamesOf(meta) == IF IsNull(meta) THEN <<>> ELSE uniqueRepos(Val(meta).items, <<>>)

projectAliasesOf(meta, resume) ==
  addPortfolioAliases(portfolioAliases,
    addTitleAliases(IF IsNull(resume) THEN <<>> ELSE Val(resume).projects,
      addRepoAliases(repoNamesOf(meta), <<>>)))

(* --------------------------------------------------------- loadBinaryIndex *)
\* (mutant) the guard never finds the index cached
indexCached_never == FALSE

\* (mutant) the guard looks at the metadata only
indexCached_metaOnly == ~IsNull(indexMeta)

\* the guard at the top of loadBinaryIndex
indexCached ==
  indexLoaded /\ ~IsNull(indexMeta) /\ ~IsNull(vectors) /\ ~IsNull(textsBuffer)

\* (mutant) the items.length !== count test is missing
metaInvalid_noLength(meta) == meta.count = 0 \/ meta.dim = 0

\* !count || !dim || !items || items.length !== count
metaInvalid(meta) ==
  meta.count = 0 \/ meta.dim = 0 \/ Len(meta.items) # meta.count

\* this.vectors.length !== count * dim
vectorsMismatch(v, meta) == Len(v) # meta.count * meta.dim

\* the catch block of loadBinaryIndex, and of initialize when it is the caller
loadFailed ==
  /\ indexLoaded' = FALSE
  /\ initialized' = IF caller = "initialize" THEN FALSE ELSE initialized
  /\ loadOutcome' = "load_rejected"
  /\ pc' = "idle"
  /\ UNCHANGED <<repoNames, projectAliases>>

\* loadBinaryIndex has returned; initialize, when it is the caller, goes on
loadReturned(meta, loaded, resume) ==
  /\ pc' = "idle"
  /\ IF caller = "initialize"
       THEN IF ~loaded \/ IsNull(meta)
              THEN /\ initialized' = FALSE
                   /\ loadOutcome' = "rejected"
                   /\ UNCHANGED <<repoNames, projectAliases>>
              ELSE /\ repoNames' = repoNamesOf(meta)
                   /\ projectAliases' = projectAliasesOf(meta, resume)
                   /\ initialized' = TRUE
                   /\ loadOutcome' = "resolved"
       ELSE /\ loadOutcome' = "resolved"
            /\ UNCHANGED <<initialized, repoNames, projectAliases>>

\* a direct call of the public method loadBinaryIndex()
loadBinaryIndex_call ==
  /\ UNCHANGED turnVars
  /\ pc = "idle"
  /\ caller' = "direct"
  /\ IF indexCached
       THEN /\ pc' = "idle"
            /\ loadOutcome' = "cached"
       ELSE /\ pc' = "load_meta"
            /\ loadOutcome' = "pending"
  /\ UNCHANGED serviceVars

\* await fetch('/rag/meta.json') settles
loadBinaryIndex_meta ==
  /\ UNCHANGED turnVars
  /\ pc = "load_meta"
  /\ \E got \in Fetched(MetaDocs) :
       IF IsNull(got)
         THEN /\ loadFailed
              /\ UNCHANGED indexMeta
         ELSE /\ indexMeta' = got
              /\ IF metaInvalid(Val(got))
                   THEN loadFailed
                   ELSE /\ pc' = "load_vectors"
                        /\ UNCHANGED <<indexLoaded, initialized, loadOutcome,
                                       repoNames, projectAliases>>
  /\ UNCHANGED <<apiKey, embedder, llm, llmWithTools, tools, resumeData,
                 vectors, textsBuffer, caller>>

\* await fetch('/rag/vectors.f32') settles
loadBinaryIndex_vectors ==
  /\ UNCHANGED turnVars
  /\ pc = "load_vectors"
  /\ \E got \in Fetched(VectorAssets) :
       IF IsNull(got)
         THEN /\ loadFailed
              /\ UNCHANGED vectors
         ELSE /\ vectors' = got
              /\ IF vectorsMismatch(Val(got), Val(indexMeta))
                   THEN loadFailed
                   ELSE /\ pc' = "load_texts"
                        /\ UNCHANGED <<indexLoaded, initialized, loadOutcome,
                                       repoNames, projectAliases>>
  /\ UNCHANGED <<apiKey, embedder, llm, llmWithTools, tools, resumeData,
                 indexMeta, textsBuffer, caller>>

\* await fetch('/rag/texts.txt') settles
loadBinaryIndex_texts ==
  /\ UNCHANGED turnVars
  /\ pc = "load_texts"
  /\ \E got \in Fetched(TextAssets) :
       IF IsNull(got)
         THEN /\ loadFailed
              /\ UNCHANGED textsBuffer
         ELSE /\ textsBuffer' = got
              /\ indexLoaded' = TRUE
              /\ loadReturned(indexMeta, TRUE, resumeData)
  /\ UNCHANGED <<apiKey, embedder, llm, llmWithTools, tools, resumeData,
                 indexMeta, vectors, caller>>

(* -------------------------------------------------------------- initialize *)
\* initialize() up to its first await (loadResumeData)
initialize_call ==
  /\ UNCHANGED turnVars
  /\ pc = "idle"
  /\ caller' = "initialize"
  /\ IF initialized
       THEN /\ loadOutcome' = "resolved"
            /\ UNCHANGED <<pc, embedder, llm, llmWithTools, tools, initialized>>
       ELSE IF ~apiKey
         THEN /\ initialized' = FALSE
              /\ loadOutcome' = "rejected"
              /\ UNCHANGED <<pc, embedder, llm, llmWithTools, tools>>
         ELSE /\ embedder' = TRUE
              /\ llm' = TRUE
              /\ tools' = ToolNames
              /\ llmWithTools' = TRUE
              /\ pc' = "init_resume"
              /\ loadOutcome' = "pending"
              /\ UNCHANGED initialized
  /\ UNCHANGED <<apiKey, resumeData, indexMeta, vectors, textsBuffer, indexLoaded,
                 repoNames, projectAliases>>

\* await this.loadResumeData() settles, then loadBinaryIndex() runs to its
\* first await
initialize_resume ==
  /\ UNCHANGED turnVars
  /\ pc = "init_resume"
  /\ \E got \in Fetched(ResumeDocs) :
       /\ resumeData' = IF ~IsNull(resumeData) THEN resumeData ELSE got
       /\ IF indexCached
            THEN loadReturned(indexMeta, indexLoaded, resumeData')
            ELSE /\ pc' = "load_meta"
                 /\ UNCHANGED <<initialized, loadOutcome, repoNames, projectAliases>>
  /\ UNCHANGED <<apiKey, embedder, llm, llmWithTools, tools, indexMeta, vectors,
                 textsBuffer, indexLoaded, caller>>

(* ------------------------------------------------------------ getChunkText *)
\* Uint8Array.prototype.slice(begin, end): both ends clamped to the buffer
slice(buf, begin, end) ==
  LET n == Len(buf)
      b == IF begin > n THEN n ELSE begin
      e == IF end > n THEN n ELSE end
  IN IF e > b THEN SubSeq(buf, b + 1, e) ELSE ""

\* itemIndex counts from 0, as in the source
getChunkText(itemIndex) ==
  LET items == Val(indexMeta).items
  IN IF itemIndex < 0 \/ itemIndex >= Len(items) THEN ""
     ELSE LET item == items[itemIndex + 1]
          IN slice(Val(textsBuffer), item.text_offset, item.text_offset + item.text_length)

(* ------------------------------------------------------ detectProjectContext *)
\* String.prototype.includes
includes(s, sub) ==
  \E i \in 0..(Len(s) - Len(sub)) : SubSeq(s, i + 1, i + Len(sub)) = sub

\* s.split(' ').filter(t => t.length > 0), as the set it is turned into
RECURSIVE tokensFrom(_, _, _, _)
tokensFrom(s, i, token, found) ==
  IF i > Len(s) THEN found \cup ({token} \ {""})
  ELSE IF SubSeq(s, i, i) = " "
    THEN tokensFrom(s, i + 1, "", found \cup ({token} \ {""}))
    ELSE tokensFrom(s, i + 1, token \o SubSeq(s, i, i), found)

tokenSet(s) == tokensFrom(s, 1, "", {})

\* the length of `exact match: "${alias}"`
exactReasonLength(alias) == 15 + Len(alias)
\* the length of `token overlap (${jaccard.toFixed(2)}): "${alias}"`
overlapReasonLength(alias) == 24 + Len(alias)

\* (mutant) any shared token is enough
meetsMinimum_any(inter, union) == inter > 0
\* jaccard >= 0.5, jaccard being intersection.size / union.size
meetsMinimum(inter, union) == 2 * inter >= union

\* one pass of the loop body over the alias entries; best is
\* [match, num, den, reasonLen]: bestMatch, bestScore = num/den and
\* matchReason.length
RECURSIVE scanAliases(_, _, _, _)
scanAliases(aliases, normalizedMsg, msgTokens, best) ==
  IF aliases = <<>> THEN best
  ELSE
    LET alias == Head(aliases)[1]
        repoName == Head(aliases)[2]
        aliasTokens == tokenSet(alias)
        inter == Cardinality(msgTokens \cap aliasTokens)
        union == Cardinality(msgTokens \cup aliasTokens)
        next ==
          IF includes(normalizedMsg, alias)
            THEN IF IsNull(best.match) \/ Len(alias) > best.reasonLen
                   THEN [match |-> Some(repoName), num |-> 1, den |-> 1,
                         reasonLen |-> exactReasonLength(alias)]
                   ELSE best
            ELSE IF union > 0 /\ meetsMinimum(inter, union)
                    /\ inter * best.den > best.num * union
                   THEN [match |-> Some(repoName), num |-> inter, den |-> union,
                         reasonLen |-> overlapReasonLength(alias)]
                   ELSE best
    IN scanAliases(Tail(aliases), normalizedMsg, msgTokens, next)

\* detectProjectContext(message) over this.resumeData and this.projectAliases
detectProjectContextIn(resume, aliases, message) ==
  IF IsNull(resume) \/ aliases = <<>> THEN Null
  ELSE LET normalizedMsg == normalizeText(message)
       IN scanAliases(aliases, normalizedMsg, tokenSet(normalizedMsg),
                      [match |-> Null, num |-> 0, den |-> 1, reasonLen |-> 0]).match

detectProjectContext(message) ==
  detectProjectContextIn(resumeData, projectAliases, message)

\* (mutant) any reply but NONE is taken for a repo name
llmDetectedRepo_trusting(content) ==
  IF trim(content) # "NONE" THEN Some(trim(content)) ELSE Null
\* the reply check of detectProjectContextViaLLM: (result.content || '').trim(),
\* then response !== 'NONE' && this.repoNames.includes(response)
llmDetectedRepo(content) ==
  LET response == trim(content)
  IN IF response # "NONE" /\ \E i \in 1..Len(repoNames) : repoNames[i] = response
       THEN Some(response) ELSE Null

(* ------------------------------------------------------------ retrieveTopK *)
\* integer square root, for the L2 norm
isqrt(n) == CHOOSE r \in 0..n : r * r <= n /\ (r + 1) * (r + 1) > n

RECURSIVE sumSquares(_)
sumSquares(vec) == IF vec = <<>> THEN 0 ELSE Head(vec) * Head(vec) + sumSquares(Tail(vec))

\* normalize(vec): vec / |vec|, the zero vector unchanged. The embeddings of
\* the model are axis-aligned, so the quotient is exact in the integers.
normalize(vec) ==
  LET norm == isqrt(sumSquares(vec))
  IN IF norm = 0 THEN vec ELSE [i \in 1..Len(vec) |-> vec[i] \div norm]

\* the inner loop over j < dim for chunk i (0-based)
RECURSIVE chunkSimilarity(_, _, _, _, _)
chunkSimilarity(qvec, vecs, vectorStart, dim, j) ==
  IF j >= dim THEN 0
  ELSE qvec[j + 1] * vecs[vectorStart + j + 1]
       + chunkSimilarity(qvec, vecs, vectorStart, dim, j + 1)

\* (mutant) the repo filter is ignored
skipsChunk_never(repoFilter, item) == FALSE
\* if (repoFilter && itemRepo !== repoFilter) continue
skipsChunk(repoFilter, item) ==
  ~IsNull(repoFilter) /\ Val(repoFilter) # "" /\ itemRepo(item) # Val(repoFilter)

\* the scan over i < count: hits [index, similarity] in index order
RECURSIVE scanChunks(_, _, _, _, _)
scanChunks(qvec, meta, vecs, repoFilter, i) ==
  IF i >= meta.count THEN <<>>
  ELSE LET rest == scanChunks(qvec, meta, vecs, repoFilter, i + 1)
       IN IF skipsChunk(repoFilter, meta.items[i + 1])
            THEN rest
            ELSE <<[index |-> i,
                    similarity |-> chunkSimilarity(qvec, vecs, i * meta.dim, meta.dim, 0)]>>
                 \o rest

\* (mutant) a later hit of equal similarity goes first
keepsBefore_strict(a, b) == a.similarity > b.similarity
\* the comparator b.similarity - a.similarity is not positive: a stays before b
keepsBefore(a, b) == a.similarity >= b.similarity

\* Array.prototype.sort((a, b) => b.similarity - a.similarity): stable
RECURSIVE insertHit(_, _)
insertHit(sorted, hit) ==
  IF sorted = <<>> THEN <<hit>>
  ELSE IF keepsBefore(Head(sorted), hit)
         THEN <<Head(sorted)>> \o insertHit(Tail(sorted), hit)
         ELSE <<hit>> \o sorted

RECURSIVE sortHits(_, _)
sortHits(hits, sorted) ==
  IF hits = <<>> THEN sorted ELSE sortHits(Tail(hits), insertHit(sorted, Head(hits)))

\* Array.prototype.slice(0, k)
firstK(seq, k) == SubSeq(seq, 1, IF Len(seq) < k THEN Len(seq) ELSE k)

\* (mutant) the filter is applied to the k best of all chunks
retrieveTopKIn_filterLast(meta, vecs, qvec, repoFilter, k) ==
  SelectSeq(firstK(sortHits(scanChunks(qvec, meta, vecs, Null, 0), <<>>), k),
            LAMBDA hit : ~skipsChunk(repoFilter, meta.items[hit.index + 1]))
retrieveTopKIn(meta, vecs, qvec, repoFilter, k) ==
  firstK(sortHits(scanChunks(qvec, meta, vecs, repoFilter, 0), <<>>), k)

retrieveTopK(qvec, repoFilter, k) ==
  retrieveTopKIn(Val(indexMeta), Val(vectors), qvec, repoFilter, k)

(* --------------------------------------------------------- normalizeEmails *)
Letters == Chars(Lower) \cup Chars(Upper)
\* [a-zA-Z0-9._%+-], [a-zA-Z0-9.-] and \w
LocalChars == Letters \cup Chars(Digits) \cup {".", "_", "%", "+", "-"}
DomainChars == Letters \cup Chars(Digits) \cup {".", "-"}
WordChars == Letters \cup Chars(Digits) \cup {"_"}

\* the character at position i (from 1), "" outside the string
charAt(s, i) == IF i >= 1 /\ i <= Len(s) THEN SubSeq(s, i, i) ELSE ""

\* the characters at positions a..b (from 1) that exist
mid(s, a, b) ==
  LET lo == IF a < 1 THEN 1 ELSE a
      hi == IF b > Len(s) THEN Len(s) ELSE b
  IN IF lo > hi THEN "" ELSE SubSeq(s, lo, hi)

\* String.prototype.indexOf, positions from 0, -1 when absent
indexOf(s, sub) ==
  IF includes(s, sub)
    THEN CHOOSE i \in 0..(Len(s) - Len(sub)) :
           /\ SubSeq(s, i + 1, i + Len(sub)) = sub
           /\ \A j \in 0..(i - 1) : SubSeq(s, j + 1, j + Len(sub)) # sub
    ELSE -1

\* the ends e for which s[i..e] matches
\* [a-zA-Z0-9._%+-]+@[a-zA-Z0-9.-]+\.[a-zA-Z]{2,}
emailEnds(s, i) ==
  IF charAt(s, i) \notin LocalChars THEN {}
  ELSE
  {e \in (i + 5)..Len(s) :
     /\ charAt(s, e) \in Letters
     /\ \E a \in (i + 1)..(e - 4) :
          /\ charAt(s, a) = "@"
          /\ \A m \in i..(a - 1) : charAt(s, m) \in LocalChars
          /\ \E d \in (a + 2)..(e - 2) :
               /\ charAt(s, d) = "."
               /\ \A m \in (a + 1)..(d - 1) : charAt(s, m) \in DomainChars
               /\ \A m \in (d + 1)..e : charAt(s, m) \in Letters}

Max(S) == CHOOSE x \in S : \A y \in S : y <= x

\* the greedy quantifiers give up characters from the right, so the match is
\* the longest one the rest of the pattern accepts; 0 when there is none
\* /\(mailto:(EMAIL)\)/ at p
mailtoMatchEnd(s, p) ==
  LET ends == {e \in emailEnds(s, p + 8) : charAt(s, e + 1) = ")"}
  IN IF mid(s, p, p + 7) = "(mailto:" /\ ends # {} THEN Max(ends) ELSE 0

\* /\[(EMAIL)\](?!\(mailto:)/ at p
bracketMatchEnd(s, p) ==
  LET ends == {e \in emailEnds(s, p + 1) :
                 /\ charAt(s, e + 1) = "]"
                 /\ mid(s, e + 2, e + 9) # "(mailto:"}
  IN IF charAt(s, p) = "[" /\ ends # {} THEN Max(ends) ELSE 0

\* /\b(EMAIL)\b/ at p
plainMatchEnd(s, p) ==
  LET ends == {e \in emailEnds(s, p) : charAt(s, e + 1) \notin WordChars}
  IN IF (charAt(s, p - 1) \in WordChars) # (charAt(s, p) \in WordChars) /\ ends # {}
       THEN Max(ends) ELSE 0

\* the pre-scan: every address already inside a (mailto:...) target
existingMailtoEmails(part) ==
  {SubSeq(part, p + 8, mailtoMatchEnd(part, p)) :
     p \in {q \in 1..Len(part) : mailtoMatchEnd(part, q) # 0}}

mailtoLink(email) == "[" \o email \o "](mailto:" \o email \o ")"

\* step 1: result.replace(/\[(EMAIL)\](?!\(mailto:)/g, ...) from position p on
RECURSIVE replaceBracketed(_, _, _)
replaceBracketed(s, p, existing) ==
  IF p > Len(s) THEN ""
  ELSE LET e == bracketMatchEnd(s, p)
       IN IF e = 0
            THEN charAt(s, p) \o replaceBracketed(s, p + 1, existing)
            ELSE LET email == SubSeq(s, p + 1, e)
                 IN (IF email \in existing THEN SubSeq(s, p, e + 1) ELSE mailtoLink(email))
                    \o replaceBracketed(s, e + 2, existing)

\* the callback of step 2; result is the string being searched
plainReplacement(result, email, existing) ==
  LET idx == indexOf(result, email)
      from == IF idx - 8 > 0 THEN idx - 8 ELSE 0
      before == mid(result, from + 1, idx)
  IN IF email \in existing THEN email
     ELSE IF includes(before, "mailto:")
             \/ (Len(before) >= 2 /\ SubSeq(before, Len(before) - 1, Len(before)) = "](")
       THEN email
     ELSE mailtoLink(email)

\* step 2: result.replace(/\b(EMAIL)\b/g, ...) from position p on
RECURSIVE replacePlain(_, _, _)
replacePlain(s, p, existing) ==
  IF p > Len(s) THEN ""
  ELSE LET e == plainMatchEnd(s, p)
       IN IF e = 0
            THEN charAt(s, p) \o replacePlain(s, p + 1, existing)
            ELSE plainReplacement(s, SubSeq(s, p, e), existing)
                 \o replacePlain(s, e + 1, existing)

\* the body of parts.map for a part outside code fences
normalizePart(part) ==
  LET existing == existingMailtoEmails(part)
  IN replacePlain(replaceBracketed(part, 1, existing), 1, existing)

\* the code fence: three backquotes, each written ^ here (a TLA+ string
\* cannot hold a backquote)
Fence == "^^^"

\* where the first match of the fenced-block pattern (fence, anything, lazily,
\* fence) opens and where its closing fence starts; <<0, 0>> when there is none
firstFence(s) ==
  LET isFence(i) == SubSeq(s, i, i + 2) = Fence
      opens == {i \in 1..(Len(s) - 5) : isFence(i) /\ \E j \in (i + 3)..(Len(s) - 2) : isFence(j)}
  IN IF opens = {} THEN <<0, 0>>
     ELSE LET i == CHOOSE a \in opens : \A b \in opens : a <= b
              closes == {j \in (i + 3)..(Len(s) - 2) : isFence(j)}
          IN <<i, CHOOSE a \in closes : \A b \in closes : a <= b>>

\* text.split(fenced-block pattern).map(...).join(''): fenced parts verbatim
RECURSIVE normalizeEmails(_)
normalizeEmails(text) ==
  LET f == firstFence(text)
  IN IF f[1] = 0 THEN normalizePart(text)
     ELSE normalizePart(SubSeq(text, 1, f[1] - 1))
          \o SubSeq(text, f[1], f[2] + 2)
          \o normalizeEmails(SubSeq(text, f[2] + 3, Len(text)))

(* ------------------------------------------------------------ formatChunks *)
\* the chunk text is cut to maxLength characters and marked with '...'
\* (mutant) the chunk text is never cut
truncate_whole(chunkText) == chunkText
\* chunkText.length > maxLength ? chunkText.substring(0, maxLength) + '...' : chunkText
truncate(chunkText) ==
  IF Len(chunkText) > maxLength
    THEN SubSeq(chunkText, 1, maxLength) \o "..."
    ELSE chunkText

\* The citation header of items[idx]. The source writes the line range with
\* an en dash; the model writes it "-".
sourceHeader(item) ==
  LET projectName == IF itemRepo(item) # "" THEN itemRepo(item) ELSE "Unknown"
      filePath == IF item.file_path # "" THEN item.file_path ELSE "N/A"
      lines == IF item.start_line # 0 /\ item.end_line # 0
                 THEN " | L" \o ToString(item.start_line) \o "-" \o ToString(item.end_line)
                 ELSE ""
  IN "[Source: " \o projectName \o " | " \o filePath \o lines \o "]"

formatChunk(idx) ==
  sourceHeader(Val(indexMeta).items[idx + 1]) \o "\n" \o truncate(getChunkText(idx))

\* formatted.join('\n\n---\n\n')
RECURSIVE joinChunks(_)
joinChunks(formatted) ==
  IF formatted = <<>> THEN ""
  ELSE IF Len(formatted) = 1 THEN formatted[1]
  ELSE formatted[1] \o "\n\n---\n\n" \o joinChunks(Tail(formatted))

formatChunks(chunkIndices) ==
  joinChunks([n \in 1..Len(chunkIndices) |-> formatChunk(chunkIndices[n])])

(* ------------------------------------------------------- buildSystemPrompt *)
\* A prompt is the name of its fixed template and the text interpolated
\* into the "Retrieved Context" section of that template.
NoPrompt == [template |-> "none", context |-> ""]

buildSystemPrompt(retrievedContext) ==
  [template |-> "grounded",
   context |-> IF retrievedContext # "" THEN retrievedContext
               ELSE "No code context available for this query."]

fallbackSystemPrompt == [template |-> "fallback", context |-> ""]

(* ----------------------------------------------------- conversation memory *)
\* what sessionStorage may hold when the page creates the service
StoredSummaries == {"", "S0"}

\* getConversationSummary reads sessionStorage into this.conversationSummary
\* when the field is empty, and returns the field
getConversationSummary(summary) == IF summary = "" THEN sessionStore ELSE summary

\* the summarizer's reply content for the turn: absent, or a summary that
\* names the turn
SummaryReplies(turn) == {"", " S" \o ToString(turn) \o " "}

(* --------------------------------------------------------- executeToolCall *)
Message(role, content) == [role |-> role, content |-> content]

\* (mutant) every name is taken for a registered tool
toolFound_always(toolName) == TRUE
\* tools.find(t => t.name === toolName)
toolFound(toolName) == \E n \in 1..Len(tools) : tools[n] = toolName

\* JSON.stringify of the resume section the tool reads; a section the resume
\* lacks is serialised as the empty list, and get_contact_info as an object
RECURSIVE projectsJson(_)
projectsJson(projects) ==
  IF projects = <<>> THEN ""
  ELSE "{" \o projects[1].title \o "," \o projects[1].repo_name \o "}"
       \o (IF Len(projects) > 1 THEN "," ELSE "") \o projectsJson(Tail(projects))

toolOutput(toolName) ==
  IF toolName = "get_contact_info" THEN "{socials:[],basicInfo:{}}"
  ELSE IF toolName = "get_projects" /\ ~IsNull(resumeData)
    THEN "[" \o projectsJson(Val(resumeData).projects) \o "]"
  ELSE "[]"

\* the outcomes of tool.invoke: it returns, or throws err with err.message
ToolOutcomes == {"returns", "throws"}

executeToolCall(toolName, outcome) ==
  IF ~toolFound(toolName) THEN "Tool \"" \o toolName \o "\" not available."
  ELSE IF outcome = "returns" THEN toolOutput(toolName)
  ELSE "Error executing tool: invalid input"

toolResultMessage(toolName, toolResult) ==
  Message("user", "[Tool Result from " \o toolName \o "]:\n" \o toolResult)

(* ------------------------------------------------------------- agenticLoop *)
\* no chat-completion call issued yet: by detectProjectContextViaLLM, by the
\* agenticLoop of query, by that of queryFallback, by
\* updateConversationSummaryAsync
NoInvocations == [detect |-> 0, query |-> 0, fallback |-> 0, summary |-> 0]

\* one more llm.invoke / llmWithTools.invoke on behalf of the given caller
invoked(counts, by) ==
  IF by \in DOMAIN counts THEN [counts EXCEPT ![by] = @ + 1] ELSE counts

\* The part of the state a turn's control flow writes, as one record.
Cur ==
  [pc |-> pc, loopFor |-> loopFor, systemPrompt |-> systemPrompt,
   currentMessages |-> currentMessages, iteration |-> iteration, cap |-> cap,
   toolCalls |-> toolCalls, modelCalls |-> modelCalls, lastReply |-> lastReply,
   loopOutcome |-> loopOutcome, loopReturn |-> loopReturn,
   stages |-> stages, invocations |-> invocations, queryResult |-> queryResult, queryOutcome |-> queryOutcome,
   conversationSummary |-> conversationSummary,
   pendingSummaries |-> pendingSummaries]

Becomes(t) ==
  /\ pc' = t.pc
  /\ loopFor' = t.loopFor
  /\ systemPrompt' = t.systemPrompt
  /\ currentMessages' = t.currentMessages
  /\ iteration' = t.iteration
  /\ cap' = t.cap
  /\ toolCalls' = t.toolCalls
  /\ modelCalls' = t.modelCalls
  /\ lastReply' = t.lastReply
  /\ loopOutcome' = t.loopOutcome
  /\ loopReturn' = t.loopReturn
  /\ stages' = t.stages
  /\ invocations' = t.invocations
  /\ queryResult' = t.queryResult
  /\ queryOutcome' = t.queryOutcome
  /\ conversationSummary' = t.conversationSummary
  /\ pendingSummaries' = t.pendingSummaries

\* history.slice(-n)
lastN(seq, n) == IF Len(seq) <= n THEN seq ELSE SubSeq(seq, Len(seq) - n + 1, Len(seq))

\* (mutant) the error's message is shown to the user
apology_errorText ==
  [text |-> "LLM not initialized", sourceDocuments |-> <<>>]
\* the answer of queryFallback's catch block
apology ==
  [text |-> "I'm having trouble responding right now. Please try again.",
   sourceDocuments |-> <<>>]

resolves(t, answer) ==
  [t EXCEPT !.pc = "idle", !.queryResult = Some(answer), !.queryOutcome = "resolved"]

\* (mutant) the summarizer call is awaited: none is in flight at the return
updateConversationSummaryAsync_awaited(pending, turn) == pending
\* updateConversationSummaryAsync: llm.invoke(...) is called and its promise
\* is left to settle on its own; without a model the call throws into the
\* surrounding catch and nothing is in flight
updateConversationSummaryAsync(pending, turn) ==
  IF llm THEN pending \cup {turn} ELSE pending

\* query after its agenticLoop returned: normalizeEmails, then
\* updateConversationSummaryAsync issues the summarizer call and is not awaited
queryReturns(t, agenticResult) ==
  LET responseText == normalizeEmails(agenticResult.text)
      issued == [t EXCEPT !.stages = @ \cup {"normalizeEmails", "updateConversationSummaryAsync"},
                          !.conversationSummary = getConversationSummary(@),
                          !.pendingSummaries = updateConversationSummaryAsync(@, turns),
                          !.invocations = IF llm THEN invoked(@, "summary") ELSE @]
  IN resolves(issued, [text |-> responseText, sourceDocuments |-> sourceDocuments])

\* queryFallback after its agenticLoop returned
queryFallbackReturns(t, agenticResult) ==
  resolves([t EXCEPT !.stages = @ \cup {"normalizeEmails"}],
           [text |-> normalizeEmails(agenticResult.text), sourceDocuments |-> <<>>])

agenticLoopReturns(t, agenticResult) ==
  LET returned == [t EXCEPT !.loopOutcome = "returned", !.loopReturn = Some(agenticResult),
                            !.toolCalls = <<>>]
  IN CASE t.loopFor = "query" -> queryReturns(returned, agenticResult)
       [] t.loopFor = "fallback" -> queryFallbackReturns(returned, agenticResult)
       [] OTHER -> [returned EXCEPT !.pc = "idle"]

\* (mutant) the loop runs once more at the cap
loopContinues_pastCap(it, maxIter) == it <= maxIter
\* while (iteration < maxIterations)
loopContinues(it, maxIter) == it < maxIter

\* (mutant) the default text whatever the transcript holds
capReachedText_default(messages) == "Unable to generate response."
\* lastResponse?.content || 'Unable to generate response.'
capReachedText(messages) ==
  IF messages # <<>> /\ messages[Len(messages)].content # ""
    THEN messages[Len(messages)].content
    ELSE "Unable to generate response."

\* (mutant) the reply's content is dropped
finalResponse_blank(response, it) == [text |-> "", iterations |-> it]
\* the return on a reply without tool calls: response.content || ''
finalResponse(response, it) == [text |-> response.content, iterations |-> it]

\* the head of the while loop: the next model call, or the return at the cap
whileHead(t) ==
  IF loopContinues(t.iteration, t.cap)
    THEN [t EXCEPT !.pc = "loop_model", !.iteration = @ + 1, !.modelCalls = @ + 1,
                   !.invocations = invoked(@, t.loopFor)]
    ELSE agenticLoopReturns(t, [text |-> capReachedText(t.currentMessages),
                                iterations |-> t.iteration])

agenticLoop(t, for, prompt, messages, maxIter) ==
  whileHead([t EXCEPT !.loopFor = for, !.systemPrompt = prompt,
                      !.currentMessages = messages, !.iteration = 0,
                      !.cap = maxIter, !.toolCalls = <<>>, !.modelCalls = 0,
                      !.lastReply = Null, !.loopOutcome = "pending",
                      !.loopReturn = Null,
                      !.stages = @ \cup {"agenticLoop"}])

queryFallback(t, msg, hist) ==
  LET entered == [t EXCEPT !.stages = @ \cup {"queryFallback"}]
  IN IF ~llmWithTools THEN resolves(entered, apology)
     ELSE agenticLoop(entered, "fallback", fallbackSystemPrompt,
                      lastN(hist, RecentFallback) \o <<Message("user", msg)>>,
                      maxIterations)

\* llmWithTools.invoke, a tool call or anything after it threw
agenticLoopThrows(t) ==
  LET threw == [t EXCEPT !.loopOutcome = "threw", !.toolCalls = <<>>]
  IN CASE t.loopFor = "query" -> queryFallback(threw, userMessage, history)
       [] t.loopFor = "fallback" -> resolves(threw, apology)
       [] OTHER -> [threw EXCEPT !.pc = "idle"]

(* ------------------------------------------------------------------- query *)
\* what the user asks: a question naming the indexed project "alpha", one
\* naming the resume project "gamma", which the index lacks, and one naming
\* no project
Questions == {"Alpha code", "gamma?", "hello"}

\* the history the caller passes: none, or more than query and queryFallback keep.
\* The question that names no project comes with the long one.
longHistory ==
  <<Message("user", "q1"), Message("assistant", "a1"), Message("user", "q2"),
    Message("assistant", "a2"), Message("user", "q3"), Message("assistant", "a3"),
    Message("user", "q4")>>
historyOf(msg) == IF msg = "hello" THEN longHistory ELSE <<>>

\* replies of the chat model: content and the names of the tools it calls
Reply(content, calls) == [content |-> content, tool_calls |-> calls]

\* the model's outputs in a session
TurnReplies == {Reply("Mail a@b.co", <<>>), Reply("", <<"get_projects">>)}
DetectReplies == {"NONE", " alpha ", "gamma"}
Embeddings == {<<3, 0>>, <<0, 2>>}

\* (mutant) the guard ignores initialized and indexLoaded
notReady_onlyModel == ~embedder \/ ~llmWithTools
\* the guard of query
notReady == ~embedder \/ ~llmWithTools \/ ~initialized \/ ~indexLoaded

\* the locals of a query() call before its first statement
entersQuery(t) ==
  [t EXCEPT !.stages = {"query"}, !.invocations = NoInvocations,
            !.queryResult = Null, !.queryOutcome = "pending",
            !.loopFor = "query", !.systemPrompt = NoPrompt, !.currentMessages = <<>>,
            !.iteration = 0, !.cap = maxIterations, !.toolCalls = <<>>,
            !.modelCalls = 0, !.lastReply = Null, !.loopOutcome = "none",
            !.loopReturn = Null]

\* query up to its first await: the readiness guard, detectProjectContext,
\* and the call of detectProjectContextViaLLM or embedQuery
query_call(Asked, turnCap) ==
  /\ pc = "idle"
  /\ turns < turnCap
  /\ \E msg \in Asked :
     LET hist == historyOf(msg) IN
       /\ turns' = turns + 1
       /\ userMessage' = msg
       /\ history' = hist
       /\ queryVector' = <<>>
       /\ topKResults' = <<>>
       /\ sourceDocuments' = <<>>
       /\ detectReply' = Null
       /\ formattedContext' = ""
       /\ UNCHANGED rankK
       /\ IF notReady
            THEN /\ targetRepo' = Null
                 /\ Becomes(queryFallback(entersQuery(Cur), msg, hist))
            ELSE LET detected == detectProjectContext(msg)
                     t == [entersQuery(Cur) EXCEPT !.stages = @ \cup {"detectProjectContext"}]
                 IN /\ targetRepo' = detected
                    /\ IF ~IsNull(detected)
                         THEN Becomes([t EXCEPT !.pc = "embed", !.stages = @ \cup {"embedQuery"}])
                         ELSE IF ~llm \/ repoNames = <<>>
                           THEN Becomes([t EXCEPT !.pc = "embed",
                                   !.stages = @ \cup {"detectProjectContextViaLLM", "embedQuery"}])
                           ELSE Becomes([t EXCEPT !.pc = "detect_llm",
                                   !.stages = @ \cup {"detectProjectContextViaLLM"},
                                   !.invocations = invoked(@, "detect")])
  /\ summarySettled' = "none"
  /\ UNCHANGED <<serviceVars, caller, loadOutcome, sessionStore>>

\* detectProjectContextViaLLM after llm.invoke settled, then embedQuery is called
query_detect ==
  /\ pc = "detect_llm"
  /\ \/ /\ detectReply' = Some([failed |-> TRUE, content |-> ""])
        /\ targetRepo' = Null
     \/ \E content \in DetectReplies :
          /\ detectReply' = Some([failed |-> FALSE, content |-> content])
          /\ targetRepo' = llmDetectedRepo(content)
  /\ Becomes([Cur EXCEPT !.pc = "embed", !.stages = @ \cup {"embedQuery"}])
  /\ UNCHANGED <<serviceVars, caller, loadOutcome, sessionStore, summarySettled, inputVars,
                 queryVector, topKResults, sourceDocuments, rankK, formattedContext>>

\* query after embedder.embedQuery settled: normalize, retrieveTopK,
\* formatChunks, buildSystemPrompt, the recent history and the summary, up to
\* the first model call of agenticLoop
query_embed ==
  /\ pc = "embed"
  /\ \/ /\ Becomes(queryFallback(Cur, userMessage, history))
        /\ detectReply' = Null
        /\ UNCHANGED <<targetRepo, queryVector, topKResults, sourceDocuments, rankK,
                       formattedContext>>
     \/ \E embedding \in Embeddings :
          LET vec == normalize(embedding)
              hits == retrieveTopK(vec, targetRepo, TopK)
              topKIndices == [n \in 1..Len(hits) |-> hits[n].index]
              context == IF Len(hits) > 0 THEN formatChunks(topKIndices) ELSE ""
              summary == getConversationSummary(conversationSummary)
              recentHistory ==
                (IF summary # ""
                   THEN <<Message("system", "Conversation Summary:\n" \o summary)>>
                   ELSE <<>>)
                \o lastN(history, RecentGrounded)
              t == [Cur EXCEPT !.stages = @ \cup {"retrieveTopK", "buildSystemPrompt"}
                                      \cup (IF Len(hits) > 0 THEN {"formatChunks"} ELSE {}),
                               !.conversationSummary = summary]
          IN /\ queryVector' = vec
             /\ topKResults' = hits
             /\ sourceDocuments' =
                  [n \in 1..Len(hits) |->
                     [pageContent |-> getChunkText(topKIndices[n]),
                      metadata |-> Val(indexMeta).items[topKIndices[n] + 1]]]
             /\ rankK' = TopK
             /\ formattedContext' = context
             /\ detectReply' = Null
             /\ UNCHANGED targetRepo
             /\ Becomes(agenticLoop(t, "query", buildSystemPrompt(context),
                                    recentHistory \o <<Message("user", userMessage)>>,
                                    maxIterations))
  /\ UNCHANGED <<serviceVars, caller, loadOutcome, sessionStore, summarySettled, inputVars>>

(* ------------------------------------------------------- agenticLoop steps *)
\* agenticLoop after llmWithTools.invoke settled: the reply is final, or its
\* assistant message is pushed and its tool calls are taken up
agenticLoop_model(Replies) ==
  /\ pc = "loop_model"
  /\ \/ Becomes(agenticLoopThrows(Cur))
     \/ \E response \in Replies :
          LET t == [Cur EXCEPT !.lastReply = Some(response)]
          IN IF Len(response.tool_calls) > 0
               THEN Becomes([t EXCEPT !.pc = "loop_tool",
                               !.currentMessages = Append(@, Message("assistant", response.content)),
                               !.toolCalls = response.tool_calls])
               ELSE Becomes(agenticLoopReturns(t, finalResponse(response, t.iteration)))
  /\ UNCHANGED <<serviceVars, caller, loadOutcome, sessionStore, summarySettled, inputVars, groundVars>>

\* (mutant) the loop takes the requested calls from the end
nextToolCall_last(calls) == calls[Len(calls)]
\* for (const toolCall of response.tool_calls): the calls in request order
nextToolCall(calls) == Head(calls)

\* one turn of the for loop over response.tool_calls: executeToolCall settled
\* and its result message is pushed; after the last one, the while head
agenticLoop_tool(Outcomes) ==
  /\ pc = "loop_tool"
  /\ \E outcome \in Outcomes :
       LET toolName == nextToolCall(toolCalls)
           toolResult == executeToolCall(toolName, outcome)
           t == [Cur EXCEPT !.currentMessages = Append(@, toolResultMessage(toolName, toolResult)),
                            !.toolCalls = Tail(@)]
       IN IF t.toolCalls # <<>> THEN Becomes(t) ELSE Becomes(whileHead(t))
  /\ UNCHANGED <<serviceVars, caller, loadOutcome, sessionStore, summarySettled, inputVars, groundVars>>

\* (mutant) a failed summarizer call clears the summary
afterSummaryFailure_cleared(summary) == ""
\* the empty catch handler of the summarizer call: the summary is what it was
afterSummaryFailure(summary) == summary

\* the summarizer call of some turn settles: then(...) stores a non-empty
\* trimmed reply through setConversationSummary, catch(...) ignores a failure
summary_settle ==
  /\ pendingSummaries # {}
  /\ \E turn \in pendingSummaries :
       /\ pendingSummaries' = pendingSummaries \ {turn}
       /\ \/ /\ summarySettled' = "failed"
             /\ conversationSummary' = afterSummaryFailure(conversationSummary)
             /\ UNCHANGED sessionStore
          \/ \E content \in SummaryReplies(turn) :
               LET updated == trim(content)
               IN IF updated # ""
                    THEN /\ summarySettled' = "stored"
                         /\ conversationSummary' = updated
                         /\ sessionStore' = updated
                    ELSE /\ summarySettled' = "empty"
                         /\ UNCHANGED <<conversationSummary, sessionStore>>
  /\ UNCHANGED <<serviceVars, loadVars, inputVars, groundVars, outVars, loopVars>>

(* ------------------------------------------------------------------- Spec *)
Init ==
  /\ apiKey \in BOOLEAN
  /\ embedder = FALSE
  /\ llm = FALSE
  /\ llmWithTools = FALSE
  /\ tools = <<>>
  /\ initialized = FALSE
  /\ resumeData = Null
  /\ indexMeta = Null
  /\ vectors = Null
  /\ textsBuffer = Null
  /\ indexLoaded = FALSE
  /\ repoNames = <<>>
  /\ projectAliases = <<>>
  /\ pc = "idle"
  /\ caller = "direct"
  /\ loadOutcome = "none"
  /\ conversationSummary = ""
  /\ sessionStore \in StoredSummaries
  /\ pendingSummaries = {}
  /\ turns = 0
  /\ userMessage = ""
  /\ history = <<>>
  /\ targetRepo = Null
  /\ queryVector = <<>>
  /\ topKResults = <<>>
  /\ sourceDocuments = <<>>
  /\ rankK = TopK
  /\ formattedContext = ""
  /\ detectReply = Null
  /\ summarySettled = "none"
  /\ stages = {}
  /\ queryResult = Null
  /\ queryOutcome = "none"
  /\ invocations = NoInvocations
  /\ loopFor = "direct"
  /\ systemPrompt = NoPrompt
  /\ currentMessages = <<>>
  /\ iteration = 0
  /\ cap = maxIterations
  /\ toolCalls = <<>>
  /\ modelCalls = 0
  /\ lastReply = Null
  /\ loopOutcome = "none"
  /\ loopReturn = Null

Next ==
  \/ initialize_call
  \/ initialize_resume
  \/ loadBinaryIndex_call
  \/ loadBinaryIndex_meta
  \/ loadBinaryIndex_vectors
  \/ loadBinaryIndex_texts
  \/ query_call(Questions, MaxTurns)
  \/ query_detect
  \/ query_embed
  \/ agenticLoop_model(TurnReplies)
  \/ agenticLoop_tool({"returns"})
  \/ summary_settle

Spec == Init /\ [][Next]_vars

(* ---------------------------------------------------------------- LoopSpec *)
\* agenticLoop called on its own, with any cap up to the default and any
\* replies of the model, on a service whose initialize built the model and
\* the tools and then failed to fetch the index
Transcripts == {<<Message("user", "hi")>>, longHistory}
ToolChoices == {"get_skills", "nope"}
RECURSIVE ToolCallLists(_)
ToolCallLists(n) ==
  IF n = 0 THEN {<<>>}
  ELSE ToolCallLists(n - 1)
       \cup {Append(calls, name) : calls \in {c \in ToolCallLists(n - 1) : Len(c) = n - 1},
                                   name \in ToolChoices}
LoopReplies ==
  {Reply(content, <<>>) : content \in {"", "done"}}
  \cup {Reply("", calls) : calls \in ToolCallLists(MaxToolCalls) \ {<<>>}}

agenticLoop_call ==
  /\ pc = "idle"
  /\ llmWithTools
  /\ \E messages \in Transcripts, maxIter \in 1..maxIterations :
       Becomes(agenticLoop([Cur EXCEPT !.stages = {}], "direct", fallbackSystemPrompt,
                           messages, maxIter))
  /\ UNCHANGED <<serviceVars, caller, loadOutcome, sessionStore, summarySettled, inputVars, groundVars>>

LoopInit ==
  /\ apiKey = TRUE
  /\ embedder = TRUE
  /\ llm = TRUE
  /\ llmWithTools = TRUE
  /\ tools = ToolNames
  /\ initialized = FALSE
  /\ resumeData = Null
  /\ indexMeta = Null
  /\ vectors = Null
  /\ textsBuffer = Null
  /\ indexLoaded = FALSE
  /\ repoNames = <<>>
  /\ projectAliases = <<>>
  /\ pc = "idle"
  /\ caller = "initialize"
  /\ loadOutcome = "load_rejected"
  /\ conversationSummary = ""
  /\ sessionStore = ""
  /\ pendingSummaries = {}
  /\ turns = 0
  /\ userMessage = ""
  /\ history = <<>>
  /\ targetRepo = Null
  /\ queryVector = <<>>
  /\ topKResults = <<>>
  /\ sourceDocuments = <<>>
  /\ rankK = TopK
  /\ formattedContext = ""
  /\ detectReply = Null
  /\ summarySettled = "none"
  /\ stages = {}
  /\ queryResult = Null
  /\ queryOutcome = "none"
  /\ invocations = NoInvocations
  /\ loopFor = "direct"
  /\ systemPrompt = NoPrompt
  /\ currentMessages = <<>>
  /\ iteration = 0
  /\ cap = maxIterations
  /\ toolCalls = <<>>
  /\ modelCalls = 0
  /\ lastReply = Null
  /\ loopOutcome = "none"
  /\ loopReturn = Null

LoopNext ==
  \/ agenticLoop_call
  \/ agenticLoop_model(LoopReplies)
  \/ agenticLoop_tool(ToolOutcomes)

LoopSpec == LoopInit /\ [][LoopNext]_vars

(* ----------------------------------------------------------------- claims *)

(* ---------------------------------------------------------------- RankSpec *)
\* no query, loop or summarizer call has been made
noTurnYet ==
  /\ conversationSummary = ""
  /\ sessionStore = ""
  /\ pendingSummaries = {}
  /\ summarySettled = "none"
  /\ turns = 0
  /\ userMessage = ""
  /\ history = <<>>
  /\ targetRepo = Null
  /\ queryVector = <<>>
  /\ topKResults = <<>>
  /\ sourceDocuments = <<>>
  /\ rankK = TopK
  /\ formattedContext = ""
  /\ detectReply = Null
  /\ stages = {}
  /\ queryResult = Null
  /\ queryOutcome = "none"
  /\ invocations = NoInvocations
  /\ loopFor = "direct"
  /\ systemPrompt = NoPrompt
  /\ currentMessages = <<>>
  /\ iteration = 0
  /\ cap = maxIterations
  /\ toolCalls = <<>>
  /\ modelCalls = 0
  /\ lastReply = Null
  /\ loopOutcome = "none"
  /\ loopReturn = Null

\* the service after initialize resolved over the given assets
initializedOver(meta, vecs, texts, resume) ==
  /\ apiKey = TRUE
  /\ embedder = TRUE
  /\ llm = TRUE
  /\ llmWithTools = TRUE
  /\ tools = ToolNames
  /\ initialized = TRUE
  /\ resumeData = resume
  /\ indexMeta = Some(meta)
  /\ vectors = Some(vecs)
  /\ textsBuffer = Some(texts)
  /\ indexLoaded = TRUE
  /\ repoNames = repoNamesOf(Some(meta))
  /\ projectAliases = projectAliasesOf(Some(meta), resume)
  /\ pc = "idle"
  /\ caller = "initialize"
  /\ loadOutcome = "resolved"

\* retrieveTopK called on its own over indexes of up to MaxChunks chunks of
\* dimension 1, with any repo of each chunk and any component of each vector
RankRepos == {"alpha", "beta"}
RankComponents == {1, 2}
RankIndex(repos, components) ==
  [count |-> Len(repos), dim |-> 1,
   items |-> [i \in 1..Len(repos) |-> Item(repos[i], "", 0, 1)]]
RankQueries == {<<1>>, <<-1>>}
RankFilters == {Null, Some(""), Some("alpha"), Some("beta"), Some("gamma")}

RankInit ==
  /\ \E n \in 1..MaxChunks :
       \E repos \in [1..n -> RankRepos], components \in [1..n -> RankComponents] :
         initializedOver(RankIndex(repos, components), components, "abc", Null)
  /\ noTurnYet

retrieveTopK_call ==
  /\ pc = "idle"
  /\ \E qvec \in RankQueries, repoFilter \in RankFilters, k \in 0..(MaxChunks + 1) :
       /\ queryVector' = qvec
       /\ targetRepo' = repoFilter
       /\ rankK' = k
       /\ topKResults' = retrieveTopK(qvec, repoFilter, k)
  /\ UNCHANGED <<serviceVars, loadVars, summaryVars, inputVars, outVars, loopVars,
                 sourceDocuments, detectReply, formattedContext>>

RankNext == retrieveTopK_call

RankSpec == RankInit /\ [][RankNext]_vars


(* -------------------------------------------------------------- DetectSpec *)
\* detectProjectContext called on its own, on a service initialized over an
\* index whose chunks name up to MaxRepos of these repos, in any order (the
\* order the alias map is built and iterated in), and the resume
DetectRepos == {"alpha", "beta", "beta-app", "app-beta-x"}
RECURSIVE RepoOrders(_)
RepoOrders(n) ==
  IF n = 0 THEN {<<>>}
  ELSE RepoOrders(n - 1)
       \cup {Append(repos, repo) :
               <<repos, repo>> \in {<<rs, r>> \in RepoOrders(n - 1) \X DetectRepos :
                                     Len(rs) = n - 1 /\ \A i \in 1..Len(rs) : rs[i] # r}}
DetectQuestions ==
  {"Beta app", "app beta", "the beta-app code", "beta", "alpha app beta",
   "x app beta", "gamma?", "hello", "this project"}

DetectInit ==
  /\ \E repos \in RepoOrders(MaxRepos) \ {<<>>}, resume \in ResumeDocs :
       initializedOver(RankIndex(repos, [i \in 1..Len(repos) |-> 1]),
                       [i \in 1..Len(repos) |-> 1], "abc", Some(resume))
  /\ noTurnYet

detectProjectContext_call ==
  /\ pc = "idle"
  /\ \E message \in DetectQuestions :
       /\ userMessage' = message
       /\ targetRepo' = detectProjectContext(message)
  /\ UNCHANGED <<serviceVars, loadVars, summaryVars, outVars, loopVars, turns, history,
                 queryVector, topKResults, sourceDocuments, rankK, detectReply,
                 formattedContext>>

DetectNext == detectProjectContext_call

DetectSpec == DetectInit /\ [][DetectNext]_vars


(* ------------------------------------------------------------- FormatSpec *)
\* formatChunks called on its own over indexes of up to MaxFormatted chunks
\* whose texts are shorter than, as long as and longer than maxLength
\* a text blob of 1280 characters
RECURSIVE doubled(_, _)
doubled(s, n) == IF n = 0 THEN s ELSE doubled(s \o s, n - 1)
LongText == doubled("0123456789", 7)
ChunkLengths == {0, 1, maxLength, maxLength + 1, maxLength + 4}
FormatIndex(lengths) ==
  [count |-> Len(lengths), dim |-> 1,
   items |-> [n \in 1..Len(lengths) |-> Item("alpha", "", n - 1, lengths[n])]]

FormatInit ==
  /\ \E n \in 1..MaxFormatted :
       \E lengths \in [1..n -> ChunkLengths] :
         initializedOver(FormatIndex(lengths), [m \in 1..n |-> 1], LongText, Null)
  /\ noTurnYet

formatChunks_call ==
  /\ pc = "idle"
  /\ \E n \in 0..MaxFormatted :
       \E chunkIndices \in [1..n -> 0..(Val(indexMeta).count - 1)] :
         /\ topKResults' = [m \in 1..n |-> [index |-> chunkIndices[m], similarity |-> 0]]
         /\ formattedContext' = formatChunks(chunkIndices)
  /\ UNCHANGED <<serviceVars, loadVars, summaryVars, inputVars, outVars, loopVars,
                 targetRepo, queryVector, sourceDocuments, rankK, detectReply>>

FormatNext == formatChunks_call

FormatSpec == FormatInit /\ [][FormatNext]_vars

(* -------------------------------------------------------------- EmailSpec *)
\* normalizeEmails called on its own, as query and queryFallback call it on
\* the text the loop returned. The texts are made of up to MaxFragments
\* fragments: addresses, link syntax, the mailto scheme, a blank, a fence.
Addresses == {"a@b.co", "c@d.eu"}
Fragments ==
  Addresses \cup {"[a@b.co]", "(mailto:a@b.co)", "mailto:", "[x](", "(x)", ")", " ", Fence}
RECURSIVE Texts(_)
Texts(n) ==
  IF n = 0 THEN {""}
  ELSE {""} \cup {fragment \o text : fragment \in Fragments, text \in Texts(n - 1)}

EmailInit ==
  /\ \E resume \in ResumeDocs :
       initializedOver(MetaAlphaBeta, <<1, 2>>, "abc", Some(resume))
  /\ noTurnYet

\* one call per behaviour
normalizeEmails_call ==
  /\ pc = "idle"
  /\ IsNull(lastReply)
  /\ \E text \in Texts(MaxFragments) :
       /\ lastReply' = Some(Reply(text, <<>>))
       /\ queryResult' = Some([text |-> normalizeEmails(text), sourceDocuments |-> <<>>])
  /\ UNCHANGED <<serviceVars, loadVars, summaryVars, inputVars, groundVars, stages,
                 invocations, queryOutcome, pc, loopFor, systemPrompt, currentMessages, iteration, cap,
                 toolCalls, modelCalls, loopOutcome, loopReturn>>

EmailNext == normalizeEmails_call

EmailSpec == EmailInit /\ [][EmailNext]_vars

(* --------------------------------------------------------------- ChatSpec *)
\* A conversation of up to MaxChatTurns turns with a service whose initialize
\* resolved: App.handleSend issues a query only when none is in progress, and
\* the summarizer call of an earlier turn settles whenever it does.
ChatInit ==
  /\ \E resume \in ResumeDocs :
       initializedOver(MetaAlphaBeta, <<1, 2>>, "abc", Some(resume))
  /\ noTurnYet

ChatNext ==
  \/ query_call(Questions, MaxChatTurns)
  \/ query_detect
  \/ query_embed
  \/ agenticLoop_model(TurnReplies)
  \/ agenticLoop_tool({"returns"})
  \/ summary_settle

ChatSpec == ChatInit /\ [][ChatNext]_vars


\* C6: when loadBinaryIndex fails (a fetch fails, items.length differs from
\* count, or the vector buffer length differs from count*dim) it rejects, the
\* store is not ready, and nothing of the failed attempt stays in the store:
\* metadata, vectors and text blob are all null.
C6_FailedLoadExposesNothing ==
  loadOutcome = "load_rejected" =>
    /\ ~indexLoaded
    /\ IsNull(indexMeta)
    /\ IsNull(vectors)
    /\ IsNull(textsBuffer)

\* C7: whenever indexLoaded is true, items.length = count and the embedding
\* buffer holds count * dim numbers.
C7_LoadedIndexConsistent ==
  indexLoaded =>
    /\ ~IsNull(indexMeta)
    /\ ~IsNull(vectors)
    /\ Len(Val(indexMeta).items) = Val(indexMeta).count
    /\ Len(Val(vectors)) = Val(indexMeta).count * Val(indexMeta).dim

C7_Witness ==
  /\ indexLoaded
  /\ loadOutcome = "resolved"
  /\ Val(indexMeta).count = 2

\* C8: once the index is loaded, no step fetches an index asset again (no
\* call is left waiting for /rag/meta.json, vectors.f32 or texts.txt) or
\* changes metadata, vectors or text blob, and a call of loadBinaryIndex
\* returns at once with the cache hit.
C8_LoadIdempotent ==
  [][indexLoaded =>
       /\ UNCHANGED <<indexMeta, vectors, textsBuffer, indexLoaded>>
       /\ pc' \notin {"load_meta", "load_vectors", "load_texts"}
       /\ (loadBinaryIndex_call => pc' = "idle" /\ loadOutcome' = "cached")]_vars

C8_Witness ==
  /\ indexLoaded
  /\ loadOutcome = "cached"
  /\ pc = "idle"

\* C9: after a successful load every chunk's text span lies inside the text
\* blob: text_offset + text_length is at most the blob's length.
C9_SpansInsideBlob ==
  indexLoaded =>
    \A i \in 1..Len(Val(indexMeta).items) :
      LET item == Val(indexMeta).items[i]
      IN item.text_offset + item.text_length <= Len(Val(textsBuffer))

\* C1: query never rejects. A failure of the embedding call or of the grounded
\* agentic loop is answered through queryFallback, and when queryFallback
\* fails too (no model, or its own loop throws) the answer is the static
\* apology with an empty sourceDocuments list.
C1_QueryNeverRejects ==
  /\ queryOutcome \in {"none", "pending", "resolved"}
  /\ queryOutcome = "resolved" =>
        /\ ~IsNull(queryResult)
        /\ "queryFallback" \notin stages => loopFor = "query" /\ loopOutcome = "returned"
        /\ ("queryFallback" \in stages /\ (loopOutcome = "threw" \/ ~llmWithTools)) =>
              /\ Val(queryResult).text =
                   "I'm having trouble responding right now. Please try again."
              /\ Val(queryResult).sourceDocuments = <<>>
  /\ (queryOutcome # "none" /\ "embedQuery" \in stages /\ pc \notin {"detect_llm", "embed"}
      /\ queryVector = <<>>) => "queryFallback" \in stages
  /\ (queryOutcome = "pending" /\ loopOutcome = "threw") =>
        "queryFallback" \in stages /\ loopFor = "fallback"

\* a query whose embedding call failed and whose fallback loop then threw
C1_Witness ==
  /\ queryOutcome = "resolved"
  /\ "embedQuery" \in stages
  /\ queryVector = <<>>
  /\ loopOutcome = "threw"
  /\ Val(queryResult).sourceDocuments = <<>>

\* C2: a scoped ranking with zero hits is answered through queryFallback.
C2_ZeroHitsUseFallback ==
  (queryOutcome = "resolved" /\ "retrieveTopK" \in stages /\ ~IsNull(targetRepo)
   /\ topKResults = <<>>) => "queryFallback" \in stages

\* C3: agenticLoop calls the model at most maxIterations times, whatever the
\* replies and however many tools they call, and then it ends: a running loop
\* always has a step to take, and each step that leaves it running lowers the
\* pair (model calls still allowed, tool calls still to run).
C3_LoopWithinCap ==
  /\ [](/\ modelCalls <= cap /\ iteration <= cap /\ cap <= maxIterations
        /\ loopOutcome = "pending" => pc \in {"loop_model", "loop_tool"})
  /\ [][(loopOutcome = "pending" /\ loopOutcome' = "pending") =>
         LET left == cap - iteration + (IF pc = "loop_model" THEN 1 ELSE 0)
             leftNext == cap' - iteration' + (IF pc' = "loop_model" THEN 1 ELSE 0)
         IN \/ leftNext < left
            \/ leftNext = left /\ Len(toolCalls') < Len(toolCalls)]_vars

\* a loop that used its whole cap on replies with the most tool calls
C3_Witness ==
  /\ loopOutcome = "returned"
  /\ cap = maxIterations
  /\ modelCalls = cap
  /\ Len(Val(lastReply).tool_calls) = MaxToolCalls

\* C4: when the last tool result of the last allowed iteration is pushed,
\* agenticLoop returns, without throwing, the content of the last message of
\* the transcript.
C4_CapReturnsLastMessage ==
  [][(pc = "loop_tool" /\ Len(toolCalls) = 1 /\ iteration = cap) =>
       /\ loopOutcome' = "returned"
       /\ loopReturn' = Some([text |-> currentMessages'[Len(currentMessages')].content,
                              iterations |-> cap])]_vars

\* a loop that ended at the cap on the result of an unknown tool
C4_Witness ==
  /\ loopOutcome = "returned"
  /\ iteration = cap
  /\ cap = maxIterations
  /\ Len(Val(lastReply).tool_calls) > 0
  /\ Val(loopReturn).text = "[Tool Result from nope]:\nTool \"nope\" not available."

\* C5: a reply without tool calls ends the loop: it returns that reply's
\* text, pushes no message (so runs no tool) and calls the model no more.
C5_ToolFreeReplyReturns ==
  [][(pc = "loop_model" /\ ~IsNull(lastReply') /\ Val(lastReply').tool_calls = <<>>) =>
       /\ loopOutcome' = "returned"
       /\ pc' = "idle"
       /\ Val(loopReturn').text = Val(lastReply').content
       /\ currentMessages' = currentMessages
       /\ modelCalls' = modelCalls
       /\ toolCalls' = <<>>]_vars

\* a loop that returned a tool-free reply after an iteration with tool calls
C5_Witness ==
  /\ loopOutcome = "returned"
  /\ iteration = 2
  /\ Val(lastReply) = Reply("done", <<>>)
  /\ Val(loopReturn).text = "done"

\* C10: a query made while the service is not initialized or the index is
\* not loaded runs no scope detection, embedding or ranking, and goes through
\* queryFallback.
C10_NotReadySkipsGrounded ==
  (queryOutcome # "none" /\ (~initialized \/ ~indexLoaded)) =>
    /\ "queryFallback" \in stages
    /\ stages \cap {"detectProjectContext", "detectProjectContextViaLLM", "embedQuery",
                     "retrieveTopK", "formatChunks", "buildSystemPrompt"} = {}
    /\ pc \notin {"detect_llm", "embed"}
    /\ loopFor = "fallback" \/ queryResult = Some(apology)

\* a not-ready query that the fallback loop answered
C10_Witness ==
  /\ queryOutcome = "resolved"
  /\ ~initialized
  /\ llmWithTools
  /\ loopFor = "fallback"
  /\ loopOutcome = "returned"

\* C11: every hit of a retrieveTopK call scoped to a repo is a chunk of that
\* repo; over an index of one alpha chunk and one beta chunk, the call scoped
\* to alpha with k >= 1 returns the alpha chunk alone, whatever the scores.
C11_ScopedHitsInScope ==
  (queryVector # <<>> /\ ~IsNull(targetRepo) /\ Val(targetRepo) # "") =>
    LET items == Val(indexMeta).items
        repoOf(n) == IF items[n].repo # "" THEN items[n].repo ELSE items[n].project_name
    IN /\ \A h \in 1..Len(topKResults) :
            repoOf(topKResults[h].index + 1) = Val(targetRepo)
       /\ (Len(items) = 2 /\ repoOf(1) = "alpha" /\ repoOf(2) = "beta"
           /\ Val(targetRepo) = "alpha" /\ rankK >= 1) =>
            (Len(topKResults) = 1 /\ topKResults[1].index = 0)

\* the alpha chunk scores 1 and the beta chunk 2: the call scoped to alpha
\* returned the alpha chunk
C11_Witness ==
  /\ Len(Val(indexMeta).items) = 2
  /\ Val(indexMeta).items[1].repo = "alpha"
  /\ Val(indexMeta).items[2].repo = "beta"
  /\ Val(vectors) = <<1, 2>>
  /\ queryVector = <<1>>
  /\ targetRepo = Some("alpha")
  /\ rankK = 2
  /\ topKResults = <<[index |-> 0, similarity |-> 1]>>

\* C12: retrieveTopK returns min(k, n) of its n candidates (the chunks the
\* filter lets through), each with its dot product, in non-increasing score
\* order, equal scores in ascending index order, and no candidate left out
\* goes before a returned one in that order.
C12_TopKSortedStable ==
  (queryVector # <<>> /\ Val(indexMeta).dim = 1) =>
    LET items == Val(indexMeta).items
        repoOf(n) == IF items[n].repo # "" THEN items[n].repo ELSE items[n].project_name
        scoped == ~IsNull(targetRepo) /\ Val(targetRepo) # ""
        candidates == {n \in 1..Len(items) : ~scoped \/ repoOf(n) = Val(targetRepo)}
        score(n) == queryVector[1] * Val(vectors)[n]
        before(a, b) == score(a) > score(b) \/ (score(a) = score(b) /\ a < b)
        returned == {topKResults[h].index + 1 : h \in 1..Len(topKResults)}
    IN /\ Len(topKResults) =
            IF rankK < Cardinality(candidates) THEN rankK ELSE Cardinality(candidates)
       /\ returned \subseteq candidates
       /\ \A h \in 1..Len(topKResults) :
            topKResults[h].similarity = score(topKResults[h].index + 1)
       /\ \A g, h \in 1..Len(topKResults) :
            g < h => before(topKResults[g].index + 1, topKResults[h].index + 1)
       /\ \A a \in candidates \ returned : \A b \in returned : before(b, a)

\* three chunks of equal score, the first two returned in index order
C12_Witness ==
  /\ Val(vectors) = <<2, 2, 2>>
  /\ queryVector = <<1>>
  /\ IsNull(targetRepo)
  /\ rankK = 2
  /\ topKResults = <<[index |-> 0, similarity |-> 2], [index |-> 1, similarity |-> 2]>>

\* C13: when some alias is a substring of the normalized question,
\* detectProjectContext returns the repo of an alias that is a substring.
C13_SubstringAliasWins ==
  LET normalizedMsg == normalizeText(userMessage)
      exact == {n \in 1..Len(projectAliases) : includes(normalizedMsg, projectAliases[n][1])}
  IN (userMessage # "" /\ exact # {}) =>
       /\ ~IsNull(targetRepo)
       /\ \E n \in exact : projectAliases[n][2] = Val(targetRepo)

\* C14: when several aliases are substrings of the normalized question,
\* detectProjectContext returns the repo of a longest one of them.
C14_LongestSubstringAliasWins ==
  LET normalizedMsg == normalizeText(userMessage)
      exact == {n \in 1..Len(projectAliases) : includes(normalizedMsg, projectAliases[n][1])}
      longest == {n \in exact : \A m \in exact :
                    Len(projectAliases[m][1]) <= Len(projectAliases[n][1])}
  IN (userMessage # "" /\ Cardinality(exact) > 1) =>
       /\ ~IsNull(targetRepo)
       /\ \E n \in longest : projectAliases[n][2] = Val(targetRepo)

\* C15: detectProjectContextViaLLM calls the model only when repoNames is not
\* empty, and what it returns is null or a member of repoNames: null when the
\* call failed, when the trimmed reply is NONE and when it is not in
\* repoNames, and the trimmed reply otherwise.
C15_ModelScopeIsKnownRepo ==
  LET known == {repoNames[n] : n \in 1..Len(repoNames)}
  IN /\ pc = "detect_llm" => (repoNames # <<>> /\ llm)
     /\ ("detectProjectContextViaLLM" \in stages /\ pc # "detect_llm") =>
          (IsNull(targetRepo) \/ Val(targetRepo) \in known)
     /\ ("detectProjectContextViaLLM" \in stages /\ pc = "embed") =>
          /\ repoNames = <<>> => (IsNull(detectReply) /\ IsNull(targetRepo))
          /\ repoNames # <<>> => ~IsNull(detectReply)
          /\ ~IsNull(detectReply) =>
               LET reply == Val(detectReply)
                   response == trim(reply.content)
               IN IF reply.failed \/ response = "NONE" \/ response \notin known
                    THEN IsNull(targetRepo)
                    ELSE targetRepo = Some(response)

\* the model named an indexed repo, padded with blanks, and it became the scope
C15_Witness ==
  /\ "detectProjectContextViaLLM" \in stages
  /\ pc = "embed"
  /\ detectReply = Some([failed |-> FALSE, content |-> " alpha "])
  /\ targetRepo = Some("alpha")

\* C16: executeToolCall never raises. For a name that is not a registered tool
\* it returns the text Tool "<name>" not available.; for a registered tool it
\* returns the tool's output, or the text Error executing tool: <message> when
\* the tool throws. agenticLoop pushes that string as the labelled tool result
\* and goes on with the turn: the next tool call, the next model call, or the
\* return at the cap.
C16_ToolFailureIsAResult ==
  [][pc = "loop_tool" =>
       LET toolName == Head(toolCalls)
           registered == {tools[n] : n \in 1..Len(tools)}
           label == "[Tool Result from " \o toolName \o "]:\n"
           pushed == currentMessages'[Len(currentMessages')]
       IN /\ loopOutcome' # "threw"
          /\ Len(currentMessages') = Len(currentMessages) + 1
          /\ SubSeq(currentMessages', 1, Len(currentMessages)) = currentMessages
          /\ pushed.role = "user"
          /\ toolName \notin registered =>
               pushed.content = label \o "Tool \"" \o toolName \o "\" not available."
          /\ toolName \in registered =>
               pushed.content \in {label \o toolOutput(toolName),
                                   label \o "Error executing tool: invalid input"}
          /\ toolCalls' = Tail(toolCalls)
          /\ IF toolCalls' # <<>> THEN pc' = "loop_tool"
             ELSE IF iteration < cap THEN pc' = "loop_model" /\ loopOutcome' = "pending"
             ELSE loopOutcome' = "returned"
  ]_vars

\* an unknown tool and a throwing tool were both answered with a string, and
\* the loop is at its next model call
C16_Witness ==
  /\ pc = "loop_model"
  /\ loopOutcome = "pending"
  /\ Len(currentMessages) >= 2
  /\ currentMessages[Len(currentMessages) - 1].content
       = "[Tool Result from nope]:\nTool \"nope\" not available."
  /\ currentMessages[Len(currentMessages)].content
       = "[Tool Result from get_skills]:\nError executing tool: invalid input"

\* C17: when the summarizer's model call fails, the failure is swallowed: the
\* conversation summary and its stored copy keep the values they had, and the
\* turn's answer and outcome are what they were.
C17_FailedSummaryKeepsSummary ==
  [][(pendingSummaries' # pendingSummaries /\ pendingSummaries' \subseteq pendingSummaries
      /\ summarySettled' = "failed")
       => UNCHANGED <<conversationSummary, sessionStore, queryResult, queryOutcome>>
  ]_vars

\* the summarizer call of an answered turn failed over a stored summary
C17_Witness ==
  /\ summarySettled = "failed"
  /\ pendingSummaries = {}
  /\ conversationSummary = "S0"
  /\ sessionStore = "S0"
  /\ queryOutcome = "resolved"
  /\ "updateConversationSummaryAsync" \in stages

\* C18: query does not wait for the summarizer. The step that delivers a
\* grounded answer leaves the turn's summarizer call in flight; while the turn
\* is pending its summarizer call has not been issued; the call settles, if it
\* ever does, after the answer was delivered and without touching it.
C18_SummaryNotAwaited ==
  /\ [](queryOutcome = "pending" => turns \notin pendingSummaries)
  /\ [][/\ (queryOutcome = "pending" /\ queryOutcome' = "resolved"
            /\ "updateConversationSummaryAsync" \in stages')
           => (turns \in pendingSummaries' /\ ~IsNull(queryResult'))
        /\ (turns \in pendingSummaries /\ turns \notin pendingSummaries')
           => (queryOutcome = "resolved" /\ UNCHANGED <<queryResult, queryOutcome, turns>>)
     ]_vars

\* the answer of a grounded turn is delivered and its summarizer call is
\* still in flight
C18_Witness ==
  /\ queryOutcome = "resolved"
  /\ ~IsNull(queryResult)
  /\ "agenticLoop" \in stages
  /\ "updateConversationSummaryAsync" \in stages
  /\ turns \in pendingSummaries
  /\ summarySettled = "none"

\* C19: the stored summary is written only between turns: no step taken while
\* a query is in progress changes the summary kept in session storage.
C19_SummaryWrittenBetweenTurns ==
  [][sessionStore' # sessionStore => (queryOutcome # "pending" /\ queryOutcome' # "pending")]_vars

\* C20: once the index is loaded it is read-only: indexLoaded stays true, and
\* no step of a turn (the call of query, scope detection by the model, the
\* embedding with rank and format, the loop's model and tool steps, the
\* settling of a summarizer call) changes the metadata, the vectors or the
\* text blob.
C20_IndexReadOnlyInTurns ==
  [][indexLoaded =>
       LET turnStep == \/ turns' # turns
                       \/ pc \in {"detect_llm", "embed", "loop_model", "loop_tool"}
                       \/ pendingSummaries' # pendingSummaries
       IN /\ indexLoaded'
          /\ turnStep => (/\ indexMeta' = indexMeta
                          /\ vectors' = vectors
                          /\ textsBuffer' = textsBuffer)
  ]_vars

\* a grounded turn ranked and formatted chunks, answered, and its summary was
\* stored, over the index as it was loaded
C20_Witness ==
  /\ indexLoaded
  /\ indexMeta = Some(MetaAlphaBeta)
  /\ vectors = Some(<<1, 2>>)
  /\ textsBuffer = Some("abc")
  /\ queryOutcome = "resolved"
  /\ {"retrieveTopK", "formatChunks", "agenticLoop"} \subseteq stages
  /\ summarySettled = "stored"

\* C21: formatChunks([]) is the empty string, and for valid hit indices the
\* result is the join of the formatted chunks, each a citation header, a line
\* break and a body of at most 1203 characters: the chunk text when it has at
\* most 1200 characters, otherwise its first 1200 characters and "...".
C21_ChunkBodyTruncated ==
  ("formatChunks" \in stages \/ topKResults # <<>> \/ formattedContext # "") =>
    LET items == Val(indexMeta).items
        text(h) == LET item == items[topKResults[h].index + 1]
                   IN mid(Val(textsBuffer), item.text_offset + 1,
                          item.text_offset + item.text_length)
        body(h) == IF Len(text(h)) <= 1200 THEN text(h)
                   ELSE SubSeq(text(h), 1, 1200) \o "..."
        chunk(h) == sourceHeader(items[topKResults[h].index + 1]) \o "\n" \o body(h)
        joined[h \in 0..Len(topKResults)] ==
          IF h = 0 THEN ""
          ELSE IF h = 1 THEN chunk(1)
          ELSE joined[h - 1] \o "\n\n---\n\n" \o chunk(h)
    IN /\ \A h \in 1..Len(topKResults) : Len(body(h)) <= 1203
       /\ formattedContext = joined[Len(topKResults)]
       /\ topKResults = <<>> => formattedContext = ""

\* a chunk of 1201 characters was formatted: its body is 1203 characters long
C21_Witness ==
  /\ Len(topKResults) = 1
  /\ Val(indexMeta).items[topKResults[1].index + 1].text_length = 1201
  /\ Len(formattedContext) = Len("[Source: alpha | src/a.js]") + 1 + 1203
  /\ SubSeq(formattedContext, Len(formattedContext) - 3, Len(formattedContext)) = "9..."

\* C22: normalizeEmails is idempotent: applied to its own output it returns
\* that output.
C22_NormalizeEmailsIdempotent ==
  (~IsNull(queryResult) /\ ~IsNull(lastReply)) =>
    normalizeEmails(Val(queryResult).text) = Val(queryResult).text

\* C23: a text that is one markdown link whose label or target is an address
\* comes back as it was, and a text that is one bare address comes back as
\* exactly one link [address](mailto:address).
C23_LinkedAddressKept ==
  (~IsNull(queryResult) /\ ~IsNull(lastReply)) =>
    LET text == Val(lastReply).content
        returned == Val(queryResult).text
        labels == Addresses \cup {"x"}
        targets == Addresses \cup {"x"} \cup {"mailto:" \o a : a \in Addresses}
        links == {"[" \o label \o "](" \o target \o ")" :
                    <<label, target>> \in
                      {lt \in labels \X targets : lt[1] \in Addresses \/ lt[2] # "x"}}
    IN /\ text \in links => returned = text
       /\ text \in Addresses =>
            returned = "[" \o text \o "](mailto:" \o text \o ")"

\* C24: after a reply that requests tools t1..tn the transcript ends with the
\* assistant message of that reply followed by one labelled result message
\* per tool already run, in request order; the tools not yet run are the rest
\* of the request, in order; and the next model call, or the return at the
\* cap, comes only when all n results are in.
C24_ToolResultsFollowRequest ==
  (loopOutcome \in {"pending", "returned"} /\ ~IsNull(lastReply)
   /\ Val(lastReply).tool_calls # <<>>) =>
    LET calls == Val(lastReply).tool_calls
        n == Len(calls)
        done == n - Len(toolCalls)
        base == Len(currentMessages) - done
        label(m) == "[Tool Result from " \o calls[m] \o "]:\n"
    IN /\ base >= 1
       /\ currentMessages[base] = [role |-> "assistant", content |-> Val(lastReply).content]
       /\ \A m \in 1..done :
            /\ currentMessages[base + m].role = "user"
            /\ Len(currentMessages[base + m].content) >= Len(label(m))
            /\ SubSeq(currentMessages[base + m].content, 1, Len(label(m))) = label(m)
       /\ toolCalls = SubSeq(calls, done + 1, n)
       /\ pc \in {"loop_tool", "loop_model", "idle"}
       /\ pc # "loop_tool" => done = n
       /\ pc = "loop_tool" => done < n

\* two different tools were requested and ran: the transcript ends with the
\* assistant message, the first tool's result, the second tool's result
C24_Witness ==
  /\ pc = "loop_model"
  /\ ~IsNull(lastReply)
  /\ Val(lastReply).tool_calls = <<"nope", "get_skills">>
  /\ Len(currentMessages) >= 3
  /\ currentMessages[Len(currentMessages) - 2].role = "assistant"
  /\ currentMessages[Len(currentMessages) - 1].content
       = "[Tool Result from nope]:\nTool \"nope\" not available."
  /\ currentMessages[Len(currentMessages)].content = "[Tool Result from get_skills]:\n[]"

\* C25: a scoped retrieveTopK counts only the chunks of the scope toward k: it
\* returns min(k, m) hits, m being the number of chunks of that repo, all of
\* that repo, and no chunk of the repo left out scores higher than a returned
\* one.
C25_ScopeFilteredBeforeK ==
  (queryVector # <<>> /\ ~IsNull(targetRepo) /\ Val(targetRepo) # ""
   /\ Val(indexMeta).dim = 1) =>
    LET items == Val(indexMeta).items
        inScope == {n \in 1..Len(items) :
                      (IF items[n].repo # "" THEN items[n].repo ELSE items[n].project_name)
                        = Val(targetRepo)}
        m == Cardinality(inScope)
        score(n) == queryVector[1] * Val(vectors)[n]
        returned == {topKResults[h].index + 1 : h \in 1..Len(topKResults)}
    IN /\ Len(topKResults) = (IF rankK < m THEN rankK ELSE m)
       /\ Cardinality(returned) = Len(topKResults)
       /\ returned \subseteq inScope
       /\ \A a \in inScope \ returned : \A b \in returned : score(b) >= score(a)

\* k is 1 and the best chunk of all is of repo beta: the call scoped to alpha
\* returned the alpha chunk, which is not among the best 1 of all chunks
C25_Witness ==
  /\ Len(Val(indexMeta).items) = 2
  /\ Val(indexMeta).items[1].repo = "alpha"
  /\ Val(indexMeta).items[2].repo = "beta"
  /\ Val(vectors) = <<1, 2>>
  /\ queryVector = <<1>>
  /\ targetRepo = Some("alpha")
  /\ rankK = 1
  /\ topKResults = <<[index |-> 0, similarity |-> 1]>>

C27_RankScopeIsIndexed ==
  ("retrieveTopK" \in stages /\ ~IsNull(targetRepo)) =>
    \E n \in 1..Len(Val(indexMeta).items) :
      itemRepo(Val(indexMeta).items[n]) = Val(targetRepo)

\* C28: when the summarizer calls of two turns are in flight together, the
\* stored summary after both settled is the later turn's: once the summary of
\* a later turn is stored, the settling of an earlier turn's call does not
\* put the earlier turn's summary in its place.
C28_LaterSummaryStays ==
  [][\A earlier, later \in 1..MaxChatTurns :
       (earlier < later /\ sessionStore = "S" \o ToString(later))
         => sessionStore' # "S" \o ToString(earlier)]_vars

\* C29: in every reachable state initialized implies that the index is loaded,
\* with metadata, vectors and text blob present, and that the repo list and
\* the alias table are the ones built from that metadata; an initialize call
\* that failed has left initialized false, and the initialize call made next
\* (the API key being set) goes on to loadResumeData and from there, the index
\* not being loaded, to the fetch of the metadata.
C29_InitializedMeansLoaded ==
  /\ [](initialized =>
          /\ indexLoaded
          /\ ~IsNull(indexMeta) /\ ~IsNull(vectors) /\ ~IsNull(textsBuffer)
          /\ Len(projectAliases) >= Len(portfolioAliases)
          /\ repoNames = repoNamesOf(indexMeta)
          /\ projectAliases = projectAliasesOf(indexMeta, resumeData))
  /\ []((caller = "initialize" /\ loadOutcome \in {"rejected", "load_rejected"})
          => ~initialized)
  /\ [][(/\ pc = "idle" /\ caller = "initialize" /\ apiKey
         /\ loadOutcome \in {"rejected", "load_rejected"}
         /\ caller' = "initialize" /\ loadOutcome' # loadOutcome)
        => (pc' = "init_resume" /\ loadOutcome' = "pending")]_vars
  /\ [][(pc = "init_resume" /\ pc' # pc /\ ~indexLoaded) => pc' = "load_meta"]_vars

\* initialize resolved on a call that followed a failed fetch: the service is
\* initialized over a loaded index
C29_Witness ==
  /\ initialized
  /\ caller = "initialize"
  /\ loadOutcome = "resolved"
  /\ indexLoaded
  /\ ~IsNull(resumeData)

\* C30: a call of query issues at most 7 chat-completion calls, whatever the
\* model replies and wherever a call fails: at most 1 by
\* detectProjectContextViaLLM, at most 3 by the agenticLoop of query, at most
\* 3 by the agenticLoop of queryFallback, and the summarizer call only when
\* queryFallback was not entered.
C30_AtMostSevenInvocations ==
  /\ invocations.detect <= 1
  /\ invocations.query <= 3
  /\ invocations.fallback <= 3
  /\ invocations.summary <= 1
  /\ invocations.detect + invocations.query + invocations.fallback
       + invocations.summary <= 7
  /\ invocations.summary > 0 =>
       (invocations.fallback = 0 /\ "queryFallback" \notin stages)

\* a query that asked the model for the scope, lost the third call of its
\* agenticLoop and spent the three calls of the fallback loop: 7 calls
C30_Witness ==
  /\ queryOutcome = "resolved"
  /\ invocations = [detect |-> 1, query |-> 3, fallback |-> 3, summary |-> 0]

====
